---------------------------- MODULE Spec2Model ----------------------------
(***************************************************************************)
(* A model of the shoe-store GraphQL API (schema + resolvers) and of the   *)
(* database seed script.  The Shoe table is the only persistent state; the *)
(* resolvers are one-call pass-throughs to the Prisma client, whose        *)
(* documented behaviour on the Shoe model is modelled by the shoe_*        *)
(* operators.                                                              *)
(***************************************************************************)
EXTENDS Integers, Sequences, FiniteSets, TLC

VARIABLES
    store,      \* the Shoe table: a sequence of rows in storage order
    nextId,     \* number of identifiers the database has generated so far
    nOps,       \* number of operations the server has handled
    req,        \* the last operation dispatched to a resolver: [op, args]
    resp,       \* what the caller got back for it: [kind, shoes, error]
    hist,       \* history: shoeId -> last record a mutation returned for it
    deleted,    \* history: shoeIds a deleteAShoe returned and nothing re-created
    calls,      \* concurrent run: the mutations dispatched, in dispatch order
    done,       \* concurrent run: indices of calls, in the order the database ran them
    store0,     \* concurrent run: the table before the first mutation
    seedPc,     \* seed script: position in main() and its promise chain
    seedLog,    \* seed script: what was written to the console
    exitCode,   \* seed script: the process exit code, -1 while running
    disconnected \* seed script: prisma.$disconnect() has been called

vars == <<store, nextId, nOps, req, resp, hist, deleted, calls, done, store0,
          seedPc, seedLog, exitCode, disconnected>>

serverVars == <<nOps, req, resp, hist, deleted>>
concVars == <<calls, done, store0>>
seedVars == <<seedPc, seedLog, exitCode, disconnected>>

----------------------------------------------------------------------------
(* Bounds *)

\* how many operations the server handles in one run
MaxOps == 3

\* how many mutations are in flight together in the concurrent run
MaxCalls == 2

----------------------------------------------------------------------------
(* Data model *)

Names == {"Nike ", "Adidas"}
Prices == {140, 160}

\* the four data columns of the Shoe model
DataFields == {"name", "price", "isTrending", "isSoldOut"}

\* a GraphQL / JavaScript argument: absent (undefined), null, or a value
Undefined == [tag |-> "undefined"]
Null == [tag |-> "null"]
Val(v) == [tag |-> "value", v |-> v]

IsValue(a) == a.tag = "value"

\* the Shoe type: the model's columns
Shoe(id, name, price, isTrending, isSoldOut) ==
    [shoeId |-> id, name |-> name, price |-> price,
     isTrending |-> isTrending, isSoldOut |-> isSoldOut]

NoArgs == [f \in {} |-> Undefined]

NoWhere == [f \in {} |-> TRUE]

----------------------------------------------------------------------------
(* Results of a persistence call / of an operation *)

NotFoundError == "PrismaClientKnownRequestError: P2025 record not found"
ValidationError == "PrismaClientValidationError: argument must not be null"
NonNullError == "GraphQLError: Cannot return null for non-nullable field"

ShoeResult(row) == [kind |-> "shoe", shoes |-> <<row>>, error |-> ""]
ListResult(rows) == [kind |-> "list", shoes |-> rows, error |-> ""]
NullResult == [kind |-> "null", shoes |-> <<>>, error |-> ""]
ErrorResult(e) == [kind |-> "error", shoes |-> <<>>, error |-> e]
NoResult == [kind |-> "none", shoes |-> <<>>, error |-> ""]

----------------------------------------------------------------------------
(* The Prisma client on the Shoe model.  db is [store, nextId]. *)

\* a where clause is a set of column = value conditions
Matches(row, where) == \A f \in DOMAIN where : row[f] = where[f]

RECURSIVE Filter(_, _)
Filter(rows, where) ==
    IF rows = <<>> THEN <<>>
    ELSE IF Matches(Head(rows), where)
         THEN <<Head(rows)>> \o Filter(Tail(rows), where)
         ELSE Filter(Tail(rows), where)

HasNull(data) == \E f \in DOMAIN data : data[f].tag = "null"

\* all required columns carry a value
Complete(data) == \A f \in DataFields : f \in DOMAIN data /\ IsValue(data[f])

\* undefined means "do nothing" for that column
ApplyData(row, data) ==
    [f \in DOMAIN row |->
        IF f \in DOMAIN data /\ IsValue(data[f]) THEN data[f].v ELSE row[f]]

\* @default(uuid()): an identifier no row has had
uuid(db) == db.nextId + 1

shoe_findMany(db, q) ==
    [db |-> db, result |-> ListResult(Filter(db.store, q.where))]

shoe_findUnique(db, q) ==
    LET m == Filter(db.store, q.where)
    IN  [db |-> db,
         result |-> IF m = <<>> THEN NullResult ELSE ShoeResult(m[1])]

shoe_create(db, q) ==
    IF ~Complete(q.data)
    THEN [db |-> db, result |-> ErrorResult(ValidationError)]
    ELSE LET row == Shoe(uuid(db), q.data.name.v, q.data.price.v,
                         q.data.isTrending.v, q.data.isSoldOut.v)
         IN  [db |-> [store |-> Append(db.store, row), nextId |-> uuid(db)],
              result |-> ShoeResult(row)]

shoe_update(db, q) ==
    IF HasNull(q.data)
    THEN [db |-> db, result |-> ErrorResult(ValidationError)]
    ELSE IF Filter(db.store, q.where) = <<>>
    THEN [db |-> db, result |-> ErrorResult(NotFoundError)]
    ELSE LET old == Filter(db.store, q.where)[1]
             new == ApplyData(old, q.data)
         IN  [db |-> [store |-> [i \in 1 .. Len(db.store) |->
                                    IF db.store[i].shoeId = old.shoeId
                                    THEN new ELSE db.store[i]],
                      nextId |-> db.nextId],
              result |-> ShoeResult(new)]

RECURSIVE Without(_, _)
Without(rows, id) ==
    IF rows = <<>> THEN <<>>
    ELSE IF Head(rows).shoeId = id
         THEN Without(Tail(rows), id)
         ELSE <<Head(rows)>> \o Without(Tail(rows), id)

shoe_delete(db, q) ==
    IF Filter(db.store, q.where) = <<>>
    THEN [db |-> db, result |-> ErrorResult(NotFoundError)]
    ELSE LET old == Filter(db.store, q.where)[1]
         IN  [db |-> [store |-> Without(db.store, old.shoeId),
                      nextId |-> db.nextId],
              result |-> ShoeResult(old)]

----------------------------------------------------------------------------
(* The resolvers.  Each builds one persistence call from its arguments;    *)
(* context is the shared client handle (the database it reaches).          *)

\* faulty variant: the list hides sold-out shoes
getAllShoes_filtered(context, args) ==
    [method |-> "findMany", where |-> [isSoldOut |-> FALSE], data |-> NoArgs]

getAllShoes(context, args) ==
    [method |-> "findMany", where |-> NoWhere, data |-> NoArgs]

getShoeById(context, args) ==
    [method |-> "findUnique", where |-> [shoeId |-> args.shoeId],
     data |-> NoArgs]

getAllTrendingShoes(context, args) ==
    [method |-> "findMany", where |-> [isTrending |-> TRUE], data |-> NoArgs]

\* faulty variant: the filter copied from getAllTrendingShoes and not changed
getAllSoldOutShoes_copied(context, args) ==
    [method |-> "findMany", where |-> [isTrending |-> TRUE], data |-> NoArgs]

getAllSoldOutShoes(context, args) ==
    [method |-> "findMany", where |-> [isSoldOut |-> TRUE], data |-> NoArgs]

\* faulty variant: the two boolean arguments swapped
createAShoe_swapped(context, args) ==
    [method |-> "create", where |-> NoWhere,
     data |-> [name |-> args.name, price |-> args.price,
               isTrending |-> args.isSoldOut, isSoldOut |-> args.isTrending]]

createAShoe(context, args) ==
    [method |-> "create", where |-> NoWhere,
     data |-> [name |-> args.name, price |-> args.price,
               isTrending |-> args.isTrending, isSoldOut |-> args.isSoldOut]]

FromRow(a, rows, id, f) ==
    IF a.tag = "undefined" /\ Filter(rows, [shoeId |-> id]) # <<>>
    THEN Val(Filter(rows, [shoeId |-> id])[1][f])
    ELSE a

\* faulty variant: the record read through the context and written back whole
updateAShoe_readModifyWrite(context, args) ==
    [method |-> "update", where |-> [shoeId |-> args.shoeId],
     data |-> [f \in DataFields |->
                  FromRow(args[f], context.store, args.shoeId, f)]]

OrElse(a, v) == IF a.tag = "undefined" THEN Val(v) ELSE a

\* faulty variant: absent booleans defaulted (isTrending ?? false, isSoldOut ?? false)
updateAShoe_defaults(context, args) ==
    [method |-> "update", where |-> [shoeId |-> args.shoeId],
     data |-> [name |-> args.name, price |-> args.price,
               isTrending |-> OrElse(args.isTrending, FALSE),
               isSoldOut |-> OrElse(args.isSoldOut, FALSE)]]

updateAShoe(context, args) ==
    [method |-> "update", where |-> [shoeId |-> args.shoeId],
     data |-> [name |-> args.name, price |-> args.price,
               isTrending |-> args.isTrending, isSoldOut |-> args.isSoldOut]]

\* faulty variant: a soft delete through the update flow
deleteAShoe_soft(context, args) ==
    [method |-> "update", where |-> [shoeId |-> args.shoeId],
     data |-> [isSoldOut |-> Val(TRUE)]]

deleteAShoe(context, args) ==
    [method |-> "delete", where |-> [shoeId |-> args.shoeId], data |-> NoArgs]

\* faulty variant: the flag toggled from the value read through the context
markAShoeAsSoldOut_toggle(context, args) ==
    LET m == Filter(context.store, [shoeId |-> args.shoeId])
    IN  [method |-> "update", where |-> [shoeId |-> args.shoeId],
         data |-> [isSoldOut |->
                      Val(IF m = <<>> THEN TRUE ELSE ~m[1].isSoldOut)]]

markAShoeAsSoldOut(context, args) ==
    [method |-> "update", where |-> [shoeId |-> args.shoeId],
     data |-> [isSoldOut |-> Val(TRUE)]]

\* the resolver map
Resolver(op, context, args) ==
    CASE op = "getAllShoes" -> getAllShoes(context, args)
      [] op = "getShoeById" -> getShoeById(context, args)
      [] op = "getAllTrendingShoes" -> getAllTrendingShoes(context, args)
      [] op = "getAllSoldOutShoes" -> getAllSoldOutShoes(context, args)
      [] op = "createAShoe" -> createAShoe(context, args)
      [] op = "updateAShoe" -> updateAShoe(context, args)
      [] op = "deleteAShoe" -> deleteAShoe(context, args)
      [] op = "markAShoeAsSoldOut" -> markAShoeAsSoldOut(context, args)

\* the client executes the call on the database
Execute(db, call) ==
    CASE call.method = "findMany" -> shoe_findMany(db, call)
      [] call.method = "findUnique" -> shoe_findUnique(db, call)
      [] call.method = "create" -> shoe_create(db, call)
      [] call.method = "update" -> shoe_update(db, call)
      [] call.method = "delete" -> shoe_delete(db, call)

\* faulty variant: the rejection caught and null returned in its place
Await_swallow(db, call) ==
    LET out == Execute(db, call)
    IN  IF out.result.kind = "error"
        THEN [db |-> out.db, result |-> NullResult]
        ELSE out

\* const response = await context.prisma.shoe.<method>(...); return response
\* a rejection of the awaited call rejects the resolver with the same error
Await(db, call) == Execute(db, call)

\* the schema's return types: Shoe! is non-null, [Shoe!] is nullable
NonNull(op) ==
    op \in {"getShoeById", "createAShoe", "updateAShoe",
            "markAShoeAsSoldOut", "deleteAShoe"}

\* faulty variant: the return types declared nullable (Shoe instead of Shoe!)
CompleteValue_nullable(op, result) == result

\* the execution layer completes the resolver's value against its type
CompleteValue(op, result) ==
    IF result.kind = "null" /\ NonNull(op)
    THEN ErrorResult(NonNullError)
    ELSE result

----------------------------------------------------------------------------
(* History kept for stating the properties: what callers have been told.   *)

Mutations == {"createAShoe", "updateAShoe", "markAShoeAsSoldOut", "deleteAShoe"}

HistAfter(h, op, r) ==
    IF op \in Mutations /\ r.kind = "shoe"
    THEN LET row == r.shoes[1]
         IN  IF op = "deleteAShoe"
             THEN [i \in DOMAIN h \ {row.shoeId} |-> h[i]]
             ELSE [i \in DOMAIN h \cup {row.shoeId} |->
                      IF i = row.shoeId
                      THEN [rec |-> row, fresh |-> op = "createAShoe"]
                      ELSE h[i]]
    ELSE h

DeletedAfter(d, op, r) ==
    IF op \in Mutations /\ r.kind = "shoe"
    THEN IF op = "deleteAShoe" THEN d \cup {r.shoes[1].shoeId}
         ELSE IF op = "createAShoe" THEN d \ {r.shoes[1].shoeId}
         ELSE d
    ELSE d

----------------------------------------------------------------------------
(* The server handling one operation at a time *)

DB == [store |-> store, nextId |-> nextId]

Request(op, args) ==
    LET out == Await(DB, Resolver(op, DB, args))
        r == CompleteValue(op, out.result)
    IN  /\ nOps < MaxOps
        /\ nOps' = nOps + 1
        /\ store' = out.db.store
        /\ nextId' = out.db.nextId
        /\ req' = [op |-> op, args |-> args]
        /\ resp' = r
        /\ hist' = HistAfter(hist, op, r)
        /\ deleted' = DeletedAfter(deleted, op, r)
        /\ UNCHANGED <<concVars, seedVars>>

\* createAShoe(name: String!, price: Int!, isTrending: Boolean!, isSoldOut: Boolean!)
CreateArgs ==
    [name : {Val(n) : n \in Names}, price : {Val(p) : p \in Prices},
     isTrending : {Val(b) : b \in BOOLEAN}, isSoldOut : {Val(b) : b \in BOOLEAN}]

NoData ==
    [name |-> Undefined, price |-> Undefined,
     isTrending |-> Undefined, isSoldOut |-> Undefined]

\* updateAShoe(shoeId: String!, name: String, price: Int, isTrending: Boolean,
\* isSoldOut: Boolean): no optional argument, one of them, several of them,
\* or an explicit null among them
UpdateData ==
    {NoData}
    \cup {[NoData EXCEPT !.name = Val(n)] : n \in Names}
    \cup {[NoData EXCEPT !.price = Val(p)] : p \in Prices}
    \cup {[NoData EXCEPT !.isTrending = Val(b)] : b \in BOOLEAN}
    \cup {[NoData EXCEPT !.isSoldOut = Val(b)] : b \in BOOLEAN}
    \cup {[NoData EXCEPT !.name = Val("Adidas"), !.price = Val(160)],
          [name |-> Val("Nike "), price |-> Val(140),
           isTrending |-> Val(FALSE), isSoldOut |-> Val(FALSE)],
          [NoData EXCEPT !.name = Null],
          [NoData EXCEPT !.isTrending = Val(TRUE), !.isSoldOut = Null]}

UpdateArgs(id, d) ==
    [shoeId |-> id, name |-> d.name, price |-> d.price,
     isTrending |-> d.isTrending, isSoldOut |-> d.isSoldOut]

\* identifiers a caller may send: every identifier generated so far (stored
\* or deleted) and one that was never generated
KnownIds == 1 .. (nextId + 1)

QueryGetAllShoes == Request("getAllShoes", NoArgs)

QueryGetShoeById ==
    \E id \in KnownIds : Request("getShoeById", [shoeId |-> id])

QueryGetAllTrendingShoes == Request("getAllTrendingShoes", NoArgs)

QueryGetAllSoldOutShoes == Request("getAllSoldOutShoes", NoArgs)

MutationCreateAShoe == \E a \in CreateArgs : Request("createAShoe", a)

MutationUpdateAShoe ==
    \E id \in KnownIds, d \in UpdateData :
        Request("updateAShoe", UpdateArgs(id, d))

MutationDeleteAShoe ==
    \E id \in KnownIds : Request("deleteAShoe", [shoeId |-> id])

MutationMarkAShoeAsSoldOut ==
    \E id \in KnownIds : Request("markAShoeAsSoldOut", [shoeId |-> id])

Init ==
    /\ store = <<>>
    /\ nextId = 0
    /\ nOps = 0
    /\ req = [op |-> "none", args |-> NoArgs]
    /\ resp = NoResult
    /\ hist = [i \in {} |-> [rec |-> Shoe(0, "", 0, FALSE, FALSE), fresh |-> FALSE]]
    /\ deleted = {}
    /\ calls = <<>>
    /\ done = <<>>
    /\ store0 = <<>>
    /\ seedPc = "idle"
    /\ seedLog = "none"
    /\ exitCode = -1
    /\ disconnected = FALSE

Next ==
    \/ QueryGetAllShoes
    \/ QueryGetShoeById
    \/ QueryGetAllTrendingShoes
    \/ QueryGetAllSoldOutShoes
    \/ MutationCreateAShoe
    \/ MutationUpdateAShoe
    \/ MutationDeleteAShoe
    \/ MutationMarkAShoeAsSoldOut

Spec == Init /\ [][Next]_vars

----------------------------------------------------------------------------
(* Properties of the server *)

Range(rows) == {rows[i] : i \in 1 .. Len(rows)}

Ids(rows) == {rows[i].shoeId : i \in 1 .. Len(rows)}

Has(rows, id) == id \in Ids(rows)

RowOf(rows, id) == CHOOSE r \in Range(rows) : r.shoeId = id

DistinctIds(rows) == Cardinality(Ids(rows)) = Len(rows)

\* C1: updateAShoe on an existing record leaves every record but the
\* addressed one as it was, keeps the addressed record's shoeId and every
\* field that was not supplied, and (when no argument is null) sets every
\* supplied field to the supplied value and returns the updated record.
C1_UpdateChangesOnlySuppliedFields ==
    [][(req'.op = "updateAShoe" /\ Has(store, req'.args.shoeId)) =>
        LET a == req'.args
        IN  /\ Len(store') = Len(store)
            /\ \A i \in 1 .. Len(store) :
                  IF store[i].shoeId = a.shoeId
                  THEN /\ store'[i].shoeId = store[i].shoeId
                       /\ \A f \in DataFields :
                             ~IsValue(a[f]) => store'[i][f] = store[i][f]
                       /\ ~HasNull([f \in DataFields |-> a[f]]) =>
                             /\ resp' = ShoeResult(store'[i])
                             /\ \A f \in DataFields :
                                   IsValue(a[f]) => store'[i][f] = a[f].v
                  ELSE store'[i] = store[i]]_vars

\* an update that supplied some fields and not others succeeded while
\* another record was stored
C1_Witness ==
    /\ req.op = "updateAShoe"
    /\ resp.kind = "shoe"
    /\ Len(store) = 2
    /\ IsValue(req.args.name)
    /\ ~IsValue(req.args.isTrending)
    /\ resp.shoes[1].isTrending = TRUE

C3_DeletedThenGetFails ==
    /\ \A id \in deleted : ~Has(store, id)
    /\ (req.op = "getShoeById" /\ req.args.shoeId \in deleted) =>
          (resp.kind = "error" /\ resp.shoes = <<>>)

\* a getShoeById asked for a deleted record
C3_Witness ==
    /\ req.op = "getShoeById"
    /\ req.args.shoeId \in deleted

\* C4: getAllTrendingShoes returns exactly the stored records with
\* isTrending = true, getAllSoldOutShoes exactly those with isSoldOut =
\* true, each once.
C4_FiltersExact ==
    /\ req.op = "getAllTrendingShoes" =>
          /\ resp.kind = "list"
          /\ Range(resp.shoes) = {r \in Range(store) : r.isTrending = TRUE}
          /\ DistinctIds(resp.shoes)
    /\ req.op = "getAllSoldOutShoes" =>
          /\ resp.kind = "list"
          /\ Range(resp.shoes) = {r \in Range(store) : r.isSoldOut = TRUE}
          /\ DistinctIds(resp.shoes)

\* the sold-out list held one record and left out a trending record that
\* is not sold out
C4_Witness ==
    /\ req.op = "getAllSoldOutShoes"
    /\ Len(resp.shoes) = 1
    /\ \E r \in Range(store) : r.isTrending /\ ~r.isSoldOut

\* C5: markAShoeAsSoldOut on an existing record sets its isSoldOut to true
\* and nothing else, whatever isSoldOut was, changes no other record, and
\* returns the marked record.
C5_MarkSoldOut ==
    [][(req'.op = "markAShoeAsSoldOut" /\ Has(store, req'.args.shoeId)) =>
        /\ Len(store') = Len(store)
        /\ \A i \in 1 .. Len(store) :
              IF store[i].shoeId = req'.args.shoeId
              THEN /\ store'[i] = [store[i] EXCEPT !.isSoldOut = TRUE]
                   /\ resp' = ShoeResult(store'[i])
              ELSE store'[i] = store[i]]_vars

\* a record was marked while another, not sold out, was stored
C5_Witness ==
    /\ req.op = "markAShoeAsSoldOut"
    /\ resp.kind = "shoe"
    /\ \E r \in Range(store) : r.shoeId # req.args.shoeId /\ ~r.isSoldOut

\* C6: getAllShoes returns exactly the records created and not since
\* deleted, each once, each as the last mutation of it returned it.
C6_GetAllShoes ==
    req.op = "getAllShoes" =>
        /\ resp.kind = "list"
        /\ Range(resp.shoes) = {hist[id].rec : id \in DOMAIN hist}
        /\ Len(resp.shoes) = Cardinality(DOMAIN hist)
        /\ DistinctIds(resp.shoes)

\* getAllShoes listed a sold-out record that was changed after its creation
C6_Witness ==
    /\ req.op = "getAllShoes"
    /\ Len(resp.shoes) = 1
    /\ resp.shoes[1].isSoldOut
    /\ ~hist[resp.shoes[1].shoeId].fresh

\* C7: updateAShoe, markAShoeAsSoldOut and deleteAShoe for a shoeId that
\* matches no record end with the client's own error and no record, and
\* leave the database as it was.
C7_MissingIdError ==
    [][(/\ req'.op \in {"updateAShoe", "markAShoeAsSoldOut", "deleteAShoe"}
        /\ ~Has(store, req'.args.shoeId)) =>
        /\ store' = store
        /\ nextId' = nextId
        /\ resp' = ErrorResult(
              IF req'.op = "updateAShoe"
                    /\ HasNull([f \in DataFields |-> req'.args[f]])
              THEN ValidationError ELSE NotFoundError)]_vars

\* an update or a mark addressed a record that had been deleted
C7_Witness ==
    /\ req.op \in {"updateAShoe", "markAShoeAsSoldOut"}
    /\ req.args.shoeId \in deleted
    /\ resp.kind = "error"

\* C8: deleteAShoe on an existing record returns the record as stored
\* just before (which is what the last mutation of it returned) and
\* removes that record only.
C8_DeleteReturnsPriorState ==
    [][(req'.op = "deleteAShoe" /\ Has(store, req'.args.shoeId)) =>
        LET old == RowOf(store, req'.args.shoeId)
        IN  /\ resp' = ShoeResult(old)
            /\ old = hist[req'.args.shoeId].rec
            /\ Len(store') = Len(store) - 1
            /\ Range(store') = Range(store) \ {old}]_vars

\* a record was deleted and another stayed
C8_Witness ==
    /\ req.op = "deleteAShoe"
    /\ resp.kind = "shoe"
    /\ Len(store) = 1

----------------------------------------------------------------------------
(* Concurrent mutations on the shared client.  A resolver runs up to its   *)
(* await when the operation is dispatched; the database runs the awaited   *)
(* persistence call, as one atomic statement, at some later time.          *)

\* the table when the mutations start: one seeded record
InitialTables ==
    {<<Shoe(1, "Nike ", 140, t, s)>> : t \in BOOLEAN, s \in BOOLEAN}

\* the mutations callers send together
ConcRequests ==
    {[op |-> "updateAShoe",
      args |-> UpdateArgs(1, [NoData EXCEPT !.name = Val("Adidas")])],
     [op |-> "updateAShoe",
      args |-> UpdateArgs(1, [NoData EXCEPT !.price = Val(160)])],
     [op |-> "updateAShoe",
      args |-> UpdateArgs(1, [NoData EXCEPT !.isTrending = Val(FALSE)])],
     [op |-> "updateAShoe",
      args |-> UpdateArgs(1, [NoData EXCEPT !.isSoldOut = Val(FALSE)])],
     [op |-> "updateAShoe",
      args |-> UpdateArgs(1, [NoData EXCEPT !.name = Val("Adidas"),
                                            !.price = Val(160)])],
     [op |-> "markAShoeAsSoldOut", args |-> [shoeId |-> 1]],
     [op |-> "markAShoeAsSoldOut", args |-> [shoeId |-> 2]],
     [op |-> "deleteAShoe", args |-> [shoeId |-> 1]],
     [op |-> "createAShoe",
      args |-> [name |-> Val("Adidas"), price |-> Val(160),
                isTrending |-> Val(FALSE), isSoldOut |-> Val(FALSE)]]}

\* the resolver runs to its await: the persistence call is built and sent
Dispatch(r) ==
    /\ Len(calls) < MaxCalls
    /\ calls' = Append(calls, [op |-> r.op, args |-> r.args,
                               call |-> Resolver(r.op, DB, r.args)])
    /\ UNCHANGED <<store, nextId, done, store0, serverVars, seedVars>>

\* the database runs a pending persistence call
RunCall(i) ==
    /\ \A k \in 1 .. Len(done) : done[k] # i
    /\ LET out == Await(DB, calls[i].call)
       IN  /\ store' = out.db.store
           /\ nextId' = out.db.nextId
    /\ done' = Append(done, i)
    /\ UNCHANGED <<calls, store0, serverVars, seedVars>>

ConcInit ==
    /\ store0 \in InitialTables
    /\ store = store0
    /\ nextId = Len(store0)
    /\ nOps = 0
    /\ req = [op |-> "none", args |-> NoArgs]
    /\ resp = NoResult
    /\ hist = [i \in {} |-> [rec |-> Shoe(0, "", 0, FALSE, FALSE), fresh |-> FALSE]]
    /\ deleted = {}
    /\ calls = <<>>
    /\ done = <<>>
    /\ seedPc = "idle"
    /\ seedLog = "none"
    /\ exitCode = -1
    /\ disconnected = FALSE

ConcNext ==
    \/ \E r \in ConcRequests : Dispatch(r)
    \/ \E i \in 1 .. Len(calls) : RunCall(i)

ConcSpec == ConcInit /\ [][ConcNext]_vars

\* the same operations handled one after the other
RECURSIVE Serial(_, _)
Serial(db, reqs) ==
    IF reqs = <<>> THEN db
    ELSE Serial(Await(db, Resolver(Head(reqs).op, db, Head(reqs).args)).db,
                Tail(reqs))

SerialOutcomes ==
    {Serial([store |-> store0, nextId |-> Len(store0)],
            [k \in 1 .. Len(calls) |-> calls[order[k]]]).store :
        order \in Permutations(1 .. Len(calls))}

Quiescent == Len(done) = Len(calls)

Supplied(c) ==
    IF c.op = "markAShoeAsSoldOut" THEN {"isSoldOut"}
    ELSE {f \in DataFields : IsValue(c.args[f])}

SuppliedValue(c, f) ==
    IF c.op = "markAShoeAsSoldOut" THEN TRUE ELSE c.args[f].v

\* every call updates or marks record 1, and no two supply the same field
DisjointWritesToOne ==
    /\ \A k \in 1 .. Len(calls) :
          /\ calls[k].op \in {"updateAShoe", "markAShoeAsSoldOut"}
          /\ calls[k].args.shoeId = 1
    /\ \A j, k \in 1 .. Len(calls) :
          j # k => Supplied(calls[j]) \cap Supplied(calls[k]) = {}

----------------------------------------------------------------------------
(* The seed script *)

\* the database before seeding: empty, or holding a record already
SeedTables ==
    {<<>>} \cup {<<Shoe(1, n, p, t, s)>> :
                    n \in Names, p \in Prices, t \in BOOLEAN, s \in BOOLEAN}

SeedData(pc) ==
    CASE pc = "nike" ->
            [name |-> Val("Nike "), price |-> Val(140),
             isTrending |-> Val(TRUE), isSoldOut |-> Val(FALSE)]
      [] pc = "adidas" ->
            [name |-> Val("Adidas"), price |-> Val(160),
             isTrending |-> Val(FALSE), isSoldOut |-> Val(FALSE)]
      [] pc = "timberland" ->
            [name |-> Val("Timberland"), price |-> Val(240),
             isTrending |-> Val(FALSE), isSoldOut |-> Val(TRUE)]

AfterCreate(pc) ==
    CASE pc = "nike" -> "adidas"
      [] pc = "adidas" -> "timberland"
      [] pc = "timberland" -> "log"

\* await prisma.shoe.create(...) in main(): the record is stored, or the
\* call rejects and main()'s promise rejects with it
SeedCreate ==
    /\ seedPc \in {"nike", "adidas", "timberland"}
    /\ \/ LET out == shoe_create(DB, [data |-> SeedData(seedPc)])
          IN  /\ store' = out.db.store
              /\ nextId' = out.db.nextId
              /\ seedPc' = AfterCreate(seedPc)
       \/ /\ seedPc' = "rejected"
          /\ UNCHANGED <<store, nextId>>
    /\ UNCHANGED <<seedLog, exitCode, disconnected, serverVars, concVars>>

\* console.log({ nike, addidas, timberland }); main()'s promise fulfils
SeedLog ==
    /\ seedPc = "log"
    /\ seedLog' = "records"
    /\ seedPc' = "fulfilled"
    /\ UNCHANGED <<store, nextId, exitCode, disconnected, serverVars, concVars>>

\* .catch((e) => { console.error(e); process.exit(1) }): process.exit ends
\* the process at once, no later callback runs
SeedCatch ==
    /\ seedPc = "rejected"
    /\ seedLog' = "error"
    /\ exitCode' = 1
    /\ seedPc' = "exited"
    /\ UNCHANGED <<store, nextId, disconnected, serverVars, concVars>>

\* .finally(async () => { await prisma.$disconnect() })
SeedFinally ==
    /\ seedPc = "fulfilled"
    /\ disconnected' = TRUE
    /\ seedPc' = "settled"
    /\ UNCHANGED <<store, nextId, seedLog, exitCode, serverVars, concVars>>

\* nothing is left to run: the process ends with code 0
SeedExit ==
    /\ seedPc = "settled"
    /\ exitCode' = 0
    /\ seedPc' = "exited"
    /\ UNCHANGED <<store, nextId, seedLog, disconnected, serverVars, concVars>>

SeedInit ==
    /\ store \in SeedTables
    /\ nextId = Len(store)
    /\ nOps = 0
    /\ req = [op |-> "none", args |-> NoArgs]
    /\ resp = NoResult
    /\ hist = [i \in {} |-> [rec |-> Shoe(0, "", 0, FALSE, FALSE), fresh |-> FALSE]]
    /\ deleted = {}
    /\ calls = <<>>
    /\ done = <<>>
    /\ store0 = <<>>
    /\ seedPc = "nike"
    /\ seedLog = "none"
    /\ exitCode = -1
    /\ disconnected = FALSE

SeedNext ==
    \/ SeedCreate
    \/ SeedLog
    \/ SeedCatch
    \/ SeedFinally
    \/ SeedExit

SeedSpec == SeedInit /\ [][SeedNext]_vars

\* C9: whenever the seed process has ended, prisma.$disconnect() has been
\* called, after three successful creates and after a failed one alike.
C9_DisconnectedAtExit == seedPc = "exited" => disconnected

=============================================================================
